---- MODULE Spec2Model ----
(***************************************************************************)
(* Verification model of the resilient data-ingestion layer:               *)
(*   - the REST client's local rate limiter (BaseApiClient, part_003);     *)
(*   - the Kraken streaming connection manager, in the two revisions the   *)
(*     repository holds: apps/realtime-alerts/src/App.jsx  (ver = "app")   *)
(*     and the App component of unnamed/part_002           (ver = "legacy")*)
(* Each handler of the code is one action.                                 *)
(***************************************************************************)
EXTENDS Integers, FiniteSets, Sequences, TLC

VARIABLES
    \* ---- BaseApiClient.request ----
    reqs,               \* the request() calls in progress, one per caller
    restCache,          \* this.cache: key -> {data, timestamp}
    restOrder,          \* the keys of this.cache in insertion order
    restErrorCount,     \* this.errorCount
    \* ---- BaseApiClient (part_003) ----
    rlNow,              \* Date.now()
    lastRequestTime,    \* this.lastRequestTime
    requestCount,       \* this.requestCount
    rlCallers,          \* per concurrent caller: position inside rateLimitedRequest
    \* ---- CacheManager (cache/CacheManager.js) ----
    cNow,               \* Date.now()
    cache,              \* this.cache: key -> CacheEntry, NoEntry when the key is absent
    accessOrder,        \* this.accessOrder
    currentMemory,      \* this.currentMemory
    cHung,              \* set() is inside a loop it never leaves
    cSetAt,             \* history: per key, when set() was last called for it (Never: never)
    cSetTtl,            \* history: per key, the ttl that set() call gave the entry
    cLast,              \* history: what the latest step was, and what a set() evicted
    \* ---- App component (App.jsx / part_002) ----
    ver,                \* which revision of the component runs
    status,             \* useState: status
    connecting,         \* useState: connecting
    reconnectAttempts,  \* useState: reconnectAttempts
    wsRef,              \* wsRef.current: 0 = null, else a socket
    socks,              \* the WebSocket objects created so far and the timers they own
    connectionTimeoutRef, staleIvRef, pingIvRef, healthCheckIvRef,
    reconnectToRef,     \* "null" | "live" | "dead" (handle of a timer that already fired)
    leakedReconnects,   \* pending reconnect timers whose handle was overwritten
    backoffRef,         \* backoffRef.current (ms)
    lastActivityAgo,    \* Date.now() - lastActivityRef.current, saturated
    unsubscribedRef,    \* unsubscribedRef.current
    pendingConnects,    \* connect() calls suspended at `await krakenPairsCache.getPairs()`
    jitter,             \* Math.random() * 1000 in whole ms, drawn once per run
    prices,             \* prices[pair.id] (0: no price yet)
    channelIdsRef,      \* channelIdsRef.current: its entries <<key, channel>> in insertion order
    connectionQuality,  \* connectionQuality
    lastPingSet,        \* lastPingTimeRef.current > 0
    lastPongSet,        \* lastPongTimeRef.current > 0
    pongMinusPing,      \* lastPongTimeRef.current - lastPingTimeRef.current (ms)
    hasValidPongRef,    \* hasValidPongRef.current (App.jsx only)
    pingOut,            \* the sockets whose peer has a ping to answer
    \* ---- history variables: they record what happened and are read by no handler ----
    obs,                \* which of the histories below are recorded in this run
    errorCount,         \* errorCountRef / errorCount: written by the handlers, read by none
    failedRun,          \* sockets closed without ever opening since the last open
    schedFlip,          \* flips each time a reconnect timer is created
    lastDelay,          \* delay the latest reconnect timer was created with (0: none
                        \* since an open or a manual/visibility reset)
    staleScheds,        \* reconnects scheduled by the staleness check in this stale episode
    stopped,            \* disconnect() was called and Reconnect was not clicked since
    lastMsg,            \* the kind of the message the latest step handled ("none": no message)
    roundTrip,          \* the sockets on which a pong has answered a ping since they opened
    qSet,               \* the latest step set connectionQuality to excellent/good/fair/poor
    lastData,           \* the channel and the pair name of the message the latest step handled
    subsSent,           \* the subscribe messages the latest step sent: the pair list of each
    maintenance,        \* a systemStatus 'maintenance' message has arrived since the last open
    openAgo,            \* the time since the latest open event, saturated
    visSignal           \* the latest step was a visibility signal that found no connection
                        \* active: wsRef.current null or closed, and no connect() under way

rlVars == <<rlNow, lastRequestTime, requestCount, rlCallers>>

restVars == <<reqs, restCache, restOrder, restErrorCount>>

connVars == <<ver, status, connecting, reconnectAttempts, errorCount, wsRef, socks,
              connectionTimeoutRef, staleIvRef, pingIvRef, healthCheckIvRef,
              reconnectToRef, leakedReconnects, backoffRef,
              lastActivityAgo, unsubscribedRef, pendingConnects, jitter,
              prices, channelIdsRef, connectionQuality, lastPingSet, lastPongSet, pongMinusPing,
              hasValidPongRef, pingOut,
              obs, failedRun, schedFlip, lastDelay, staleScheds, stopped, lastMsg,
              roundTrip, qSet, lastData, subsSent, maintenance,
              openAgo, visSignal>>

cacheVars == <<cNow, cache, accessOrder, currentMemory, cHung, cSetAt, cSetTtl, cLast>>

vars == <<rlVars, restVars, cacheVars, connVars>>

Min(a, b) == IF a <= b THEN a ELSE b
Max(a, b) == IF a >= b THEN a ELSE b

(***************************************************************************)
(*                     BaseApiClient.rateLimitedRequest                    *)
(***************************************************************************)
rateLimitDelay == 1000
TickMs == 500
MaxNow == 4000
MaxCallers == 2
MaxRequests == 4

Callers == 1..MaxCallers

\* Date.now() - this.lastRequestTime
timeSinceLastRequest == rlNow - lastRequestTime

\* a delay that ignores the time already waited
RLDelayFull == rateLimitDelay + timeSinceLastRequest

\* line 38: const delay = this.rateLimitDelay - timeSinceLastRequest
RLDelay == rateLimitDelay - timeSinceLastRequest

\* lines 42-45: the admission itself
RLAdmitBody(c) ==
    /\ lastRequestTime' = rlNow
    /\ requestCount' = requestCount + 1
    /\ rlCallers' = [rlCallers EXCEPT ![c] = [pc |-> "inflight", wakeAt |-> 0]]

\* a caller enters rateLimitedRequest: lines 33-40, and 42-45 when it need not wait
RLCall(c) ==
    /\ rlCallers[c].pc = "idle"
    /\ requestCount < MaxRequests
    /\ IF timeSinceLastRequest < rateLimitDelay
       THEN /\ rlCallers' = [rlCallers EXCEPT ![c] =
                    [pc |-> "waiting",
                     wakeAt |-> rlNow + RLDelay]]
            /\ UNCHANGED <<lastRequestTime, requestCount>>
       ELSE RLAdmitBody(c)
    /\ UNCHANGED <<rlNow, restVars, cacheVars, connVars>>

\* the setTimeout of line 39 resolves (never early) and the caller runs lines 42-45
RLWake(c) ==
    /\ rlCallers[c].pc = "waiting"
    /\ rlNow >= rlCallers[c].wakeAt
    /\ RLAdmitBody(c)
    /\ UNCHANGED <<rlNow, restVars, cacheVars, connVars>>

\* requestFn() settles; the caller may call again
RLReturn(c) ==
    /\ rlCallers[c].pc = "inflight"
    /\ rlCallers' = [rlCallers EXCEPT ![c] = [pc |-> "idle", wakeAt |-> 0]]
    /\ UNCHANGED <<rlNow, lastRequestTime, requestCount, restVars, cacheVars, connVars>>

\* time passes; the clock stops at MaxNow once no timer of line 39 is pending
RLTick ==
    /\ \/ rlNow < MaxNow
       \/ \E c \in Callers : rlCallers[c].pc = "waiting" /\ rlCallers[c].wakeAt > rlNow
    /\ rlNow' = rlNow + TickMs
    /\ UNCHANGED <<lastRequestTime, requestCount, rlCallers, restVars, cacheVars, connVars>>

RLInit ==
    /\ rlNow = rateLimitDelay      \* the epoch lies further back than one delay
    /\ lastRequestTime = 0
    /\ requestCount = 0
    /\ rlCallers = [c \in Callers |-> [pc |-> "idle", wakeAt |-> 0]]

RLNext ==
    \/ \E c \in Callers : RLCall(c)
    \/ \E c \in Callers : RLWake(c)
    \/ \E c \in Callers : RLReturn(c)
    \/ RLTick

(***************************************************************************)
(*                              CacheManager                               *)
(***************************************************************************)
\* the instance the model follows: new CacheManager({maxSize, maxMemory, defaultTTL})
CMaxSize == 2
CMaxMemory == 215
CDefaultTTL == 2000
\* bounds of the model
CMaxKeys == 3
CTickMs == 1000
CMaxNow == 2000
CShortTTL == 1000
CBigValue == 60

CKeys == 1..CMaxKeys
\* the values stored: arrays of one-digit numbers, named by their length
CValues == {0, 2, CBigValue}
\* the ttl argument of set(): 0 stands for the default parameter (null)
CTtls == {0, CShortTTL}
Never == 0 - 1
Miss == 0 - 1            \* get() returns null
NoEntry == [present |-> FALSE, value |-> 0, createdAt |-> 0, lastAccessed |-> 0, ttl |-> 0]

\* JSON.stringify(value).length for an array of n one-digit numbers: "[]", "[1]", "[1,1]", ...
JsonLength(n) == IF n = 0 THEN 2 ELSE 2 * n + 1

\* CacheEntry.getSize
GetSize(v) == JsonLength(v) * 2 + 100

\* CacheEntry.isExpired
IsExpired(e, now) == IF e.ttl = 0 THEN FALSE ELSE now - e.createdAt > e.ttl

CCur == [cache |-> cache, accessOrder |-> accessOrder, currentMemory |-> currentMemory,
         hung |-> FALSE]

\* this.cache.size
CacheSize(c) == Cardinality({k \in CKeys : c.cache[k].present})

\* accessOrder.indexOf(key), then splice(index, 1)
Without(ord, k) == SelectSeq(ord, LAMBDA x : x # k)

\* CacheManager.removeEntry
RemoveEntry(c, k) ==
    IF c.cache[k].present
    THEN [c EXCEPT !.currentMemory = @ - GetSize(c.cache[k].value),
                   !.cache[k] = NoEntry,
                   !.accessOrder = Without(@, k)]
    ELSE c

\* moveToFront that pushes the key without removing its old position
MoveToFrontKeepsOld(c, k) ==
    IF \E i \in 1..Len(c.accessOrder) : c.accessOrder[i] = k
    THEN [c EXCEPT !.accessOrder = Append(@, k)]
    ELSE c

\* CacheManager.moveToFront
MoveToFront(c, k) ==
    IF \E i \in 1..Len(c.accessOrder) : c.accessOrder[i] = k
    THEN [c EXCEPT !.accessOrder = Append(Without(@, k), k)]
    ELSE c

\* shouldEvict that leaves the size of the new entry out of the memory test
ShouldEvictLate(c, newEntrySize) ==
    CacheSize(c) >= CMaxSize \/ c.currentMemory > CMaxMemory

\* CacheManager.shouldEvict
ShouldEvict(c, newEntrySize) ==
    CacheSize(c) >= CMaxSize \/ (c.currentMemory + newEntrySize) > CMaxMemory

\* eviction of the entry inserted first instead of the one accessed least recently
EvictFIFO(c) ==
    IF Len(c.accessOrder) = 0 THEN c
    ELSE RemoveEntry(c, CHOOSE k \in CKeys :
                          /\ c.cache[k].present
                          /\ \A x \in CKeys : c.cache[x].present
                                => c.cache[k].createdAt <= c.cache[x].createdAt)

\* CacheManager.evictLRU
EvictLRU(c) ==
    IF Len(c.accessOrder) = 0 THEN c ELSE RemoveEntry(c, Head(c.accessOrder))

\* while (this.shouldEvict(entrySize)) this.evictLRU(): once accessOrder is empty
\* evictLRU changes nothing, and a condition that still holds then holds for ever
RECURSIVE EvictLoop(_, _)
EvictLoop(c, entrySize) ==
    IF ~ShouldEvict(c, entrySize) THEN c
    ELSE IF Len(c.accessOrder) = 0 THEN [c EXCEPT !.hung = TRUE]
    ELSE EvictLoop(EvictLRU(c), entrySize)

\* the keys the loop of set() removes
EvictedBy(c, entrySize) ==
    {x \in CKeys : c.cache[x].present /\ ~EvictLoop(c, entrySize).cache[x].present}

\* CacheManager.set
SetBody(c, k, v, ttl, now) ==
    LET e == [present |-> TRUE, value |-> v, createdAt |-> now, lastAccessed |-> now,
              ttl |-> IF ttl = 0 THEN CDefaultTTL ELSE ttl]
        c1 == EvictLoop(c, GetSize(v))
        c2 == RemoveEntry(c1, k)
    IN IF c1.hung THEN c1
       ELSE [c2 EXCEPT !.cache[k] = e,
                       !.accessOrder = Append(@, k),
                       !.currentMemory = @ + GetSize(v)]

\* touch() that also restarts the entry's life (sliding expiry)
TouchSliding(e, now) == [e EXCEPT !.lastAccessed = now, !.createdAt = now]

\* CacheEntry.touch
Touch(e, now) == [e EXCEPT !.lastAccessed = now]

\* CacheManager.get: the state it leaves
GetBody(c, k, now) ==
    IF ~c.cache[k].present THEN c
    ELSE IF IsExpired(c.cache[k], now) THEN RemoveEntry(c, k)
    ELSE MoveToFront([c EXCEPT !.cache[k] = Touch(@, now)], k)

\* CacheManager.get: the value it returns
GetReturn(c, k, now) ==
    IF ~c.cache[k].present THEN Miss
    ELSE IF IsExpired(c.cache[k], now) THEN Miss
    ELSE c.cache[k].value

\* CacheManager.has: the state it leaves and the value it returns
HasBody(c, k, now) ==
    IF c.cache[k].present /\ IsExpired(c.cache[k], now) THEN RemoveEntry(c, k) ELSE c

HasReturn(c, k, now) == c.cache[k].present /\ ~IsExpired(c.cache[k], now)

\* CacheManager.cleanup
RECURSIVE RemoveAll(_, _)
RemoveAll(c, ks) ==
    IF ks = {} THEN c
    ELSE LET k == CHOOSE x \in ks : TRUE IN RemoveAll(RemoveEntry(c, k), ks \ {k})

CleanupBody(c, now) ==
    RemoveAll(c, {k \in CKeys : c.cache[k].present /\ IsExpired(c.cache[k], now)})

\* CacheManager.clear
ClearBody(c) ==
    [c EXCEPT !.cache = [k \in CKeys |-> NoEntry], !.accessOrder = <<>>, !.currentMemory = 0]

\* what the history keeps of a step
NoOp == [op |-> "other", key |-> 0, value |-> 0, intoFull |-> FALSE, update |-> FALSE,
         evicted |-> {}, evictedLatest |-> 0]

\* of set(k, v): whether it inserted a new key into a cache holding maxSize entries,
\* whether k was stored before the call, the keys its loop evicted and the latest access
\* among them
SetRecord(k, v) ==
    LET ev == EvictedBy(CCur, GetSize(v)) IN
    [op |-> "set", key |-> k, value |-> v,
     intoFull |-> ~cache[k].present /\ CacheSize(CCur) = CMaxSize,
     update |-> cache[k].present,
     evicted |-> ev,
     evictedLatest |-> IF ev = {} THEN 0
                        ELSE CHOOSE a \in {cache[x].lastAccessed : x \in ev} :
                                \A x \in ev : cache[x].lastAccessed <= a]

CCommit(c, last) ==
    /\ cache' = c.cache
    /\ accessOrder' = c.accessOrder
    /\ currentMemory' = c.currentMemory
    /\ cHung' = c.hung
    /\ cLast' = last
    /\ UNCHANGED <<cNow, rlVars, restVars, connVars>>

CSet(k, v, ttl) ==
    /\ ~cHung
    /\ CCommit(SetBody(CCur, k, v, ttl, cNow), SetRecord(k, v))
    /\ cSetAt' = [cSetAt EXCEPT ![k] = cNow]
    /\ cSetTtl' = [cSetTtl EXCEPT ![k] = IF ttl = 0 THEN CDefaultTTL ELSE ttl]

CGet(k) ==
    /\ ~cHung
    /\ CCommit(GetBody(CCur, k, cNow), NoOp)
    /\ UNCHANGED <<cSetAt, cSetTtl>>

CHas(k) ==
    /\ ~cHung
    /\ CCommit(HasBody(CCur, k, cNow), NoOp)
    /\ UNCHANGED <<cSetAt, cSetTtl>>

CDelete(k) ==
    /\ ~cHung
    /\ CCommit(RemoveEntry(CCur, k), NoOp)
    /\ UNCHANGED <<cSetAt, cSetTtl>>

\* the cleanup timer fires
CCleanup ==
    /\ ~cHung
    /\ CCommit(CleanupBody(CCur, cNow), NoOp)
    /\ UNCHANGED <<cSetAt, cSetTtl>>

\* clear(), also called by destroy()
CClear ==
    /\ ~cHung
    /\ CCommit(ClearBody(CCur), NoOp)
    /\ UNCHANGED <<cSetAt, cSetTtl>>

CTick ==
    /\ ~cHung
    /\ cNow < CMaxNow
    /\ cNow' = cNow + CTickMs
    /\ cLast' = NoOp
    /\ UNCHANGED <<cache, accessOrder, currentMemory, cHung, cSetAt, cSetTtl, rlVars, restVars, connVars>>

CacheInit ==
    /\ cNow = 0
    /\ cache = [k \in CKeys |-> NoEntry]
    /\ accessOrder = <<>>
    /\ currentMemory = 0
    /\ cHung = FALSE
    /\ cSetAt = [k \in CKeys |-> Never]
    /\ cSetTtl = [k \in CKeys |-> 0]
    /\ cLast = NoOp

CacheNext ==
    \/ \E k \in CKeys, v \in CValues, ttl \in CTtls : CSet(k, v, ttl)
    \/ \E k \in CKeys : CGet(k)
    \/ \E k \in CKeys : CHas(k)
    \/ \E k \in CKeys : CDelete(k)
    \/ CCleanup
    \/ CClear
    \/ CTick

(***************************************************************************)
(*                         BaseApiClient.request                           *)
(***************************************************************************)
maxRetries == 3
\* the instance the model follows: new BaseApiClient({retryDelay, cacheDuration})
retryDelay == 1000
cacheDuration == 2000
restCacheLimit == 50
\* bounds of the model
RestMaxKeys == 1
RestMaxCallers == 1
RestMaxNow == 4000

RestKeys == 1..RestMaxKeys
RestCallers == 1..RestMaxCallers
\* what response.json() gives: "null" is the JSON document null, the others are objects
RestBodies == {"null", "rsi"}
\* if (cached): the truthiness of a value
Truthy(d) == d # "null"

RestAbsent == [data |-> "none", timestamp |-> Never]

IdleReq == [pc |-> "idle", key |-> 0, useCache |-> TRUE, attempt |-> 0, wakeAt |-> 0,
            ret |-> "none",
            \* history of the call
            fetches |-> 0, fresh |-> FALSE, freshData |-> "none", rl |-> FALSE,
            failAt |-> Never, failure |-> "none", hadExpired |-> FALSE]

\* the ways an attempt fails: fetch rejects ("network"), the response is not ok
\* (lines 125-130), or response.json() rejects ("malformed")
FailKinds == {"network", "http5xx", "http429", "http4xx", "malformed"}

\* the failures that a retry cannot cure
Permanent(kind) == kind \in {"http4xx", "malformed"}

\* lines 53-55: now - cached.timestamp < this.cacheDuration
RestFresh(e) == e # RestAbsent /\ rlNow - e.timestamp < cacheDuration

\* lines 49-61: the value getCachedData returns
GetCachedData(k) == IF RestFresh(restCache[k]) THEN restCache[k].data ELSE "null"

\* lines 58-60: an expired entry is removed by the read
AfterGetCachedData(k) ==
    IF restCache[k] # RestAbsent /\ ~RestFresh(restCache[k])
    THEN [cache |-> [restCache EXCEPT ![k] = RestAbsent], order |-> Without(restOrder, k)]
    ELSE [cache |-> restCache, order |-> restOrder]

\* lines 63-74
SetCachedData(k, d) ==
    LET c1 == [restCache EXCEPT ![k] = [data |-> d, timestamp |-> rlNow]]
        o1 == IF restCache[k] # RestAbsent THEN restOrder ELSE Append(restOrder, k)
    IN IF Len(o1) > restCacheLimit
       THEN [cache |-> [c1 EXCEPT ![Head(o1)] = RestAbsent], order |-> Tail(o1)]
       ELSE [cache |-> c1, order |-> o1]

\* a retry ceiling that is tested after one attempt more
GiveUpLate(attempt) == attempt > maxRetries

\* line 81: if (attempt >= this.maxRetries)
GiveUp(attempt) == attempt >= maxRetries

\* line 87: this.retryDelay * Math.pow(2, attempt - 1)
RetryDelayOf(attempt) == retryDelay * 2^(attempt - 1)

\* lines 42-45 followed by requestFn up to its await fetch(...)
RestAdmit(c, q) ==
    /\ lastRequestTime' = rlNow
    /\ requestCount' = requestCount + 1
    /\ reqs' = [reqs EXCEPT ![c] = [q EXCEPT !.pc = "fetching", !.wakeAt = 0,
                                             !.fetches = @ + 1, !.rl = TRUE]]

\* rateLimitedRequest(requestFn), lines 32-46, as request() calls it
RestRateLimitedRequest(c, q) ==
    IF timeSinceLastRequest < rateLimitDelay
    THEN /\ reqs' = [reqs EXCEPT ![c] = [q EXCEPT !.pc = "waiting",
                                                  !.wakeAt = rlNow + RLDelay, !.rl = TRUE]]
         /\ UNCHANGED <<lastRequestTime, requestCount>>
    ELSE RestAdmit(c, q)

\* request(endpoint, options), lines 96-146, up to its first suspension
ReqCall(c, k, useCache) ==
    /\ reqs[c].pc = "idle"
    /\ requestCount < MaxRequests
    /\ LET cached == IF useCache THEN GetCachedData(k) ELSE "null"
           after == IF useCache THEN AfterGetCachedData(k)
                    ELSE [cache |-> restCache, order |-> restOrder]
           q == [IdleReq EXCEPT !.key = k, !.useCache = useCache,
                                !.fresh = useCache /\ RestFresh(restCache[k]),
                                !.freshData = IF useCache /\ RestFresh(restCache[k])
                                              THEN restCache[k].data ELSE "none",
                                !.hadExpired = /\ restCache[k] # RestAbsent
                                               /\ ~RestFresh(restCache[k])]
       IN /\ restCache' = after.cache
          /\ restOrder' = after.order
          /\ IF Truthy(cached)
             THEN /\ reqs' = [reqs EXCEPT ![c] = [q EXCEPT !.pc = "done", !.ret = cached]]
                  /\ UNCHANGED <<lastRequestTime, requestCount>>
             ELSE RestRateLimitedRequest(c, [q EXCEPT !.attempt = 1])
    /\ UNCHANGED <<rlNow, rlCallers, restErrorCount, cacheVars, connVars>>

\* the setTimeout of line 39 resolves
ReqWake(c) ==
    /\ reqs[c].pc = "waiting"
    /\ rlNow >= reqs[c].wakeAt
    /\ RestAdmit(c, reqs[c])
    /\ UNCHANGED <<rlNow, rlCallers, restCache, restOrder, restErrorCount, cacheVars, connVars>>

\* fetch resolves with an ok response and a body: lines 132-141
ReqFetchOk(c, d) ==
    /\ reqs[c].pc = "fetching"
    /\ LET after == IF reqs[c].useCache THEN SetCachedData(reqs[c].key, d)
                    ELSE [cache |-> restCache, order |-> restOrder]
       IN /\ restCache' = after.cache
          /\ restOrder' = after.order
    /\ reqs' = [reqs EXCEPT ![c].pc = "done", ![c].ret = d, ![c].failAt = Never]
    /\ UNCHANGED <<rlNow, lastRequestTime, requestCount, rlCallers, restErrorCount,
                   cacheVars, connVars>>

\* the attempt fails in the way kind: the catch of retryRequest, which does not look
\* at the error it caught
ReqFetchFail(c, kind) ==
    /\ reqs[c].pc = "fetching"
    /\ IF GiveUp(reqs[c].attempt)
       THEN /\ restErrorCount' = restErrorCount + 1
            /\ reqs' = [reqs EXCEPT ![c].pc = "failed", ![c].ret = "error",
                                         ![c].failAt = Never,
                                         ![c].failure = IF Permanent(kind) THEN "permanent"
                                                        ELSE "transient"]
       ELSE /\ reqs' = [reqs EXCEPT ![c].pc = "backoff",
                                    ![c].wakeAt = rlNow + RetryDelayOf(reqs[c].attempt),
                                    ![c].failAt = rlNow,
                                    ![c].failure = IF Permanent(kind) THEN "permanent"
                                                   ELSE "transient"]
            /\ UNCHANGED restErrorCount
    /\ UNCHANGED <<rlNow, lastRequestTime, requestCount, rlCallers, restCache, restOrder,
                   cacheVars, connVars>>

\* the setTimeout of line 90 resolves: retryRequest(requestFn, attempt + 1)
ReqRetry(c) ==
    /\ reqs[c].pc = "backoff"
    /\ rlNow >= reqs[c].wakeAt
    /\ RestRateLimitedRequest(c, [reqs[c] EXCEPT !.attempt = @ + 1])
    /\ UNCHANGED <<rlNow, rlCallers, restCache, restOrder, restErrorCount, cacheVars, connVars>>

\* the promise of request() settles and the caller goes on
ReqReturn(c) ==
    /\ reqs[c].pc \in {"done", "failed"}
    /\ reqs' = [reqs EXCEPT ![c] = IdleReq]
    /\ UNCHANGED <<rlNow, lastRequestTime, requestCount, rlCallers, restCache, restOrder,
                   restErrorCount, cacheVars, connVars>>

\* time passes; the clock stops at RestMaxNow once no timer is pending
RestTick ==
    /\ \/ rlNow < RestMaxNow
       \/ \E c \in RestCallers : reqs[c].pc \in {"waiting", "backoff"} /\ reqs[c].wakeAt > rlNow
    /\ rlNow' = rlNow + TickMs
    /\ UNCHANGED <<lastRequestTime, requestCount, rlCallers, restVars, cacheVars, connVars>>

RestInit ==
    /\ reqs = [c \in RestCallers |-> IdleReq]
    /\ restCache = [k \in RestKeys |-> RestAbsent]
    /\ restOrder = <<>>
    /\ restErrorCount = 0

RestNext ==
    \/ \E c \in RestCallers, k \in RestKeys, useCache \in BOOLEAN : ReqCall(c, k, useCache)
    \/ \E c \in RestCallers : ReqWake(c)
    \/ \E c \in RestCallers, d \in RestBodies : ReqFetchOk(c, d)
    \/ \E c \in RestCallers, kind \in FailKinds : ReqFetchFail(c, kind)
    \/ \E c \in RestCallers : ReqRetry(c)
    \/ \E c \in RestCallers : ReqReturn(c)
    \/ RestTick

(***************************************************************************)
(*                 App component: configuration constants                  *)
(***************************************************************************)
STALE_MS_APP == 60000
BACKOFF_MIN_APP == 5000
BACKOFF_MAX_APP == 60000
MAX_RECONNECT_ATTEMPTS_APP == 8
STALE_MS_LEGACY == 40000
BACKOFF_MIN_LEGACY == 2000
BACKOFF_MAX_LEGACY == 60000
MAX_RECONNECT_ATTEMPTS_LEGACY == 10

STALE_MS == IF ver = "app" THEN STALE_MS_APP ELSE STALE_MS_LEGACY
BACKOFF_MIN == IF ver = "app" THEN BACKOFF_MIN_APP ELSE BACKOFF_MIN_LEGACY
BACKOFF_MAX == IF ver = "app" THEN BACKOFF_MAX_APP ELSE BACKOFF_MAX_LEGACY
MAX_RECONNECT_ATTEMPTS ==
    IF ver = "app" THEN MAX_RECONNECT_ATTEMPTS_APP ELSE MAX_RECONNECT_ATTEMPTS_LEGACY

\* bounds of the model
MaxSockets == 2          \* WebSocket objects alive (or owning a live timer) at once
MaxPending == 1          \* connect() calls suspended at the await at once
MaxLeaked == 1           \* pending reconnect timers with an overwritten handle
MaxErrorCount == 1       \* errorCount is tracked up to this value
MaxBackoffModel == 90000 \* backoffRef values the model follows (legacy escalations)
AgoStep == 70000         \* granularity of the passage of time seen by the staleness check

Socks == 1..MaxSockets

\* TRADING_PAIRS: the pairs both revisions list, one whose provider name differs from
\* its id and one whose provider name is its id
TRADING_PAIRS == << [id |-> "BTC/USD", krakenPair |-> "XBT/USD"],
                   [id |-> "SOL/USD", krakenPair |-> "SOL/USD"] >>

PairIds == {TRADING_PAIRS[i].id : i \in DOMAIN TRADING_PAIRS}
KrakenPairs == {TRADING_PAIRS[i].krakenPair : i \in DOMAIN TRADING_PAIRS}

\* TRADING_PAIRS.find(p => p.id === k)?.id, "none" for undefined
FindById(k) == IF k \in PairIds THEN k ELSE "none"

\* TRADING_PAIRS.find(p => p.krakenPair === n)?.id, "none" for undefined
FindByKrakenPair(n) ==
    IF n \in KrakenPairs
    THEN TRADING_PAIRS[CHOOSE i \in DOMAIN TRADING_PAIRS : TRADING_PAIRS[i].krakenPair = n].id
    ELSE "none"

\* TRADING_PAIRS.map(p => p.krakenPair)
AllKrakenPairs == [i \in DOMAIN TRADING_PAIRS |-> TRADING_PAIRS[i].krakenPair]

\* The channel ids the server gives the subscriptions of one connection: it may number
\* them differently on each connection.
Assignments == {1, 2}
ChanOf(a, n) == IF (a = 1) = (n = "XBT/USD") THEN 1 ELSE 2

\* a pair the component does not list, and a channel no subscription of it has
ForeignPair == "ETH/EUR"
ForeignChan == 3

NoPrices == [k \in PairIds |-> 0]
NoData == [chan |-> 0, pair |-> "none", sock |-> 0]
Dead == 0 - 1             \* a timer handle whose timer already fired or was cleared

\* Math.random() * 1000: the values the model draws from
JitterValues == {0}

\* backoffRef.current * 1.5 + jitter, in whole ms (jitter is real-valued in [0, 1000))
Grow(b, j) == (b * 3 + 1) \div 2 + j

\* WebSocket.close(code): the browser accepts 1000 and 3000..4999 and throws otherwise
CloseAllowed(code) == code = 1000 \/ code \in 3000..4999

\* The value of `connecting` every closure that calls connect() or
\* updateActivityDisplay() has captured: render 1 (useState(false)) for the boot
\* effect, onVis and everything they schedule; the Reconnect button is enabled only
\* in renders where connecting is false.
ClosureConnecting == FALSE

NoSock == [rs |-> "NONE", opened |-> FALSE, closedBy |-> "none", assign |-> 1, acked |-> {},
           timedOut |-> FALSE,
           timeout |-> FALSE, stale |-> FALSE, ping |-> FALSE, health |-> FALSE]

(***************************************************************************)
(* The component's mutable state as one record, so that a handler is the   *)
(* composition of the functions it calls.  ovf is set when a step would    *)
(* leave the bounds of the model; such a step is not taken.                *)
(***************************************************************************)
Cur == [status |-> status, connecting |-> connecting,
        reconnectAttempts |-> reconnectAttempts, errorCount |-> errorCount,
        wsRef |-> wsRef, socks |-> socks,
        connectionTimeoutRef |-> connectionTimeoutRef, staleIvRef |-> staleIvRef,
        pingIvRef |-> pingIvRef, healthCheckIvRef |-> healthCheckIvRef,
        reconnectToRef |-> reconnectToRef,
        leakedReconnects |-> leakedReconnects, backoffRef |-> backoffRef,
        lastActivityAgo |-> lastActivityAgo, unsubscribedRef |-> unsubscribedRef,
        pendingConnects |-> pendingConnects, prices |-> prices, lastMsg |-> "none",
        channelIdsRef |-> channelIdsRef, data |-> NoData, subsSent |-> << >>,
        maintenance |-> maintenance, openAgo |-> openAgo,
        connectionQuality |-> connectionQuality, lastPingSet |-> lastPingSet,
        lastPongSet |-> lastPongSet, pongMinusPing |-> pongMinusPing,
        hasValidPongRef |-> hasValidPongRef, pingOut |-> pingOut,
        roundTrip |-> roundTrip, qSet |-> FALSE, twentieth |-> FALSE, visSignal |-> FALSE,
        schedFlip |-> schedFlip, lastDelay |-> lastDelay, stopped |-> stopped,
        sched |-> FALSE, ovf |-> FALSE]

\* readyState of wsRef.current, "NONE" when wsRef.current is null
WsReadyState(r) == IF r.wsRef = 0 THEN "NONE" ELSE r.socks[r.wsRef].rs

\* a WebSocket object nothing refers to any more: closed, and none of its timers is live
Collectable(r, s) ==
    /\ r.socks[s].rs = "CLOSED"
    /\ r.wsRef # s
    /\ ~r.socks[s].timeout /\ ~r.socks[s].stale /\ ~r.socks[s].ping /\ ~r.socks[s].health

Recycle(r) ==
    [r EXCEPT !.socks = [s \in Socks |-> IF Collectable(r, s) THEN NoSock ELSE r.socks[s]]]

FreeSlot(r) ==
    IF \E s \in Socks : r.socks[s].rs = "NONE"
    THEN CHOOSE s \in Socks : r.socks[s].rs = "NONE" /\ \A u \in Socks : u < s => r.socks[u].rs # "NONE"
    ELSE 0

\* bump(): lastActivityRef.current = Date.now()
Bump(r) == [r EXCEPT !.lastActivityAgo = 0]

\* safeClose(code, reason): close() throws on a code the browser rejects and the
\* catch swallows it; wsRef.current is nulled either way
SafeClose(r, code, who) ==
    IF r.wsRef = 0 THEN r
    ELSE LET s == r.wsRef IN
         [r EXCEPT !.wsRef = 0,
                   !.socks[s] = IF CloseAllowed(code) /\ @.rs \in {"CONNECTING", "OPEN"}
                                THEN [@ EXCEPT !.rs = "CLOSING", !.closedBy = who]
                                ELSE @]

\* clearInterval / clearTimeout through a ref, then ref = null
ClearVia(sk, ref, f) ==
    IF ref \in Socks THEN [sk EXCEPT ![ref] = [@ EXCEPT ![f] = FALSE]] ELSE sk

ClearTimers(r) ==
    LET s1 == ClearVia(r.socks, r.staleIvRef, "stale")
        s2 == ClearVia(s1, r.pingIvRef, "ping")
        s3 == ClearVia(s2, r.connectionTimeoutRef, "timeout")
        s4 == IF ver = "app" THEN ClearVia(s3, r.healthCheckIvRef, "health") ELSE s3
    IN [r EXCEPT !.socks = s4,
                 !.staleIvRef = 0, !.pingIvRef = 0, !.connectionTimeoutRef = 0,
                 !.healthCheckIvRef = IF ver = "app" THEN 0 ELSE @,
                 !.reconnectToRef = "null"]

\* setTimeout(() => connect(), backoffRef.current), its handle stored in reconnectToRef
NewReconnectTimer(r) ==
    [r EXCEPT !.leakedReconnects = IF r.reconnectToRef = "live" THEN @ + 1 ELSE @,
              !.ovf = @ \/ (r.reconnectToRef = "live" /\ r.leakedReconnects >= MaxLeaked),
              !.reconnectToRef = "live",
              !.sched = TRUE,
              !.lastDelay = IF "delays" \in obs THEN r.backoffRef ELSE @,
              !.schedFlip = IF "delays" \in obs THEN ~@ ELSE @]

ScheduleReconnectApp(r, j) ==
    IF r.reconnectToRef # "null" THEN r
    ELSE IF r.reconnectAttempts >= MAX_RECONNECT_ATTEMPTS THEN [r EXCEPT !.status = "failed"]
    ELSE LET r1 == IF r.reconnectAttempts > 0
                   THEN [r EXCEPT !.backoffRef = Min(Grow(@, j), BACKOFF_MAX)]
                   ELSE r
         IN NewReconnectTimer(r1)

ScheduleReconnectLegacy(r, j) ==
    IF r.reconnectAttempts >= MAX_RECONNECT_ATTEMPTS THEN [r EXCEPT !.status = "failed"]
    ELSE [NewReconnectTimer(r) EXCEPT !.backoffRef = Min(Grow(@, j), BACKOFF_MAX)]

ScheduleReconnect(r, j) ==
    IF ver = "app" THEN ScheduleReconnectApp(r, j) ELSE ScheduleReconnectLegacy(r, j)

\* new WebSocket(KRAKEN_WS); wsRef.current = ws; connectionTimeoutRef.current = setTimeout(...)
OpenSocket(r) ==
    LET s == FreeSlot(r) IN
    IF s = 0 THEN [r EXCEPT !.ovf = TRUE]
    ELSE [r EXCEPT !.socks[s] = [NoSock EXCEPT !.rs = "CONNECTING", !.timeout = TRUE],
                   !.wsRef = s,
                   !.connectionTimeoutRef = s]

\* connect(): App.jsx suspends at the await before it creates the socket
Connect(r) ==
    IF WsReadyState(r) = "OPEN" THEN r
    ELSE IF ClosureConnecting THEN r
    ELSE LET r1 == [r EXCEPT !.connecting = TRUE, !.status = "connecting"] IN
         IF ver = "app"
         THEN [r1 EXCEPT !.pendingConnects = @ + 1, !.ovf = @ \/ r.pendingConnects >= MaxPending]
         ELSE OpenSocket(r1)

\* errorCountRef.current++, followed up to MaxErrorCount
CountError(n) == IF "errors" \in obs THEN Min(n + 1, MaxErrorCount) ELSE n

\* lastPongTimeRef.current - lastPingTimeRef.current once a ping is the later of the two
PingAfterPong == 0 - 1

\* the round-trip times of the pongs the model draws from (ms)
PongLatencies == {50, 1500}

\* the classification of updateConnectionQuality
QualityOf(pingLatency) ==
    IF pingLatency > 0 /\ pingLatency < 100 THEN "excellent"
    ELSE IF pingLatency >= 100 /\ pingLatency < 300 THEN "good"
    ELSE IF pingLatency >= 300 /\ pingLatency < 1000 THEN "fair"
    ELSE IF pingLatency >= 1000 THEN "poor"
    ELSE "unknown"

SetConnectionQuality(r, q) ==
    [r EXCEPT !.connectionQuality = q, !.qSet = q # "unknown"]

\* updateConnectionQuality()
UpdateConnectionQuality(r) ==
    IF ver = "app"
    THEN IF r.lastPingSet /\ r.lastPongSet /\ r.hasValidPongRef
         THEN SetConnectionQuality(r, QualityOf(r.pongMinusPing))
         ELSE r
    ELSE SetConnectionQuality(r, QualityOf(r.pongMinusPing))

\* the callback of the ping interval created with socket s
OnPingInterval(r, s) ==
    IF r.socks[s].rs = "OPEN"
    THEN [r EXCEPT !.lastPingSet = TRUE, !.pongMinusPing = PingAfterPong,
                   !.pingOut = @ \cup {s}]
    ELSE r

\* the callback of the health-check interval created with socket s (App.jsx);
\* recentPing: Date.now() - lastPingTimeRef.current <= 5000
OnHealthCheck(r, s, recentPing) ==
    IF r.socks[s].rs = "OPEN" /\ r.hasValidPongRef /\ ~recentPing
    THEN UpdateConnectionQuality(r)
    ELSE r

\* the pong branch of ws.onmessage, for a pong that arrives latency ms after the
\* latest ping was sent
OnPong(r, s, latency) ==
    LET r1 == [r EXCEPT !.lastPongSet = TRUE,
                        !.pongMinusPing = IF r.lastPingSet THEN latency ELSE @,
                        !.pingOut = @ \ {s},
                        !.roundTrip = @ \cup {s}]
    IN IF ver = "app"
       THEN IF latency > 0 /\ r1.lastPingSet
            THEN UpdateConnectionQuality([r1 EXCEPT !.hasValidPongRef = TRUE])
            ELSE r1
       ELSE UpdateConnectionQuality(r1)

\* the subscribe messages ws.onopen sends, each as the list of its `pair` field
Subscribe ==
    IF ver = "app"
    THEN << AllKrakenPairs >>
    ELSE [i \in DOMAIN TRADING_PAIRS |-> << TRADING_PAIRS[i].krakenPair >>]

\* ws.onopen without line 367 (backoffRef.current = BACKOFF_MIN)
OnOpenKeepsBackoff(r, s) ==
    LET r0 == IF ver = "app" THEN r
              ELSE [r EXCEPT !.socks = ClearVia(@, r.connectionTimeoutRef, "timeout"),
                             !.connectionTimeoutRef = IF @ = 0 THEN 0 ELSE Dead]
    IN [r0 EXCEPT !.status = "open",
                  !.connecting = FALSE,
                  !.reconnectAttempts = 0,
                  !.hasValidPongRef = IF ver = "app" THEN FALSE ELSE @,
                  !.subsSent = Subscribe,
                  !.socks[s] = [@ EXCEPT !.rs = "OPEN", !.opened = TRUE, !.stale = TRUE,
                                         !.ping = TRUE, !.health = (ver = "app")],
                  !.staleIvRef = s,
                  !.pingIvRef = s,
                  !.healthCheckIvRef = IF ver = "app" THEN s ELSE @]

\* ws.onopen
OnOpen(r, s) ==
    LET r0 == IF ver = "app" THEN r
              ELSE \* clearTimeout(connectionTimeoutRef.current), the ref is left as it is
                   [r EXCEPT !.socks = ClearVia(@, r.connectionTimeoutRef, "timeout"),
                             !.connectionTimeoutRef = IF @ = 0 THEN 0 ELSE Dead]
    IN [r0 EXCEPT !.status = "open",
                  !.connecting = FALSE,
                  !.reconnectAttempts = 0,
                  !.backoffRef = BACKOFF_MIN,
                  !.hasValidPongRef = IF ver = "app" THEN FALSE ELSE @,
                  !.subsSent = Subscribe,
                  !.socks[s] = [@ EXCEPT !.rs = "OPEN", !.opened = TRUE, !.stale = TRUE,
                                         !.ping = TRUE, !.health = (ver = "app")],
                  !.staleIvRef = s,
                  !.pingIvRef = s,
                  !.healthCheckIvRef = IF ver = "app" THEN s ELSE @]

\* ws.onerror
OnError(r) ==
    [r EXCEPT !.errorCount = CountError(@),
              !.connecting = IF ver = "app" THEN FALSE ELSE @]

\* ws.onclose
OnClose(r, code, j) ==
    IF ver = "app"
    THEN LET r1 == ClearTimers([r EXCEPT !.status = "disconnected", !.connecting = FALSE])
         IN IF code # 1000 THEN ScheduleReconnect(r1, j) ELSE r1
    ELSE LET r1 == [ClearTimers(r) EXCEPT !.status = "closed"]
         IN IF ~r.unsubscribedRef THEN ScheduleReconnect(r1, j) ELSE r1

\* the callback of the connection-timeout timer created with socket s
OnConnectionTimeout(r, s, j) ==
    IF ver = "app"
    THEN IF r.socks[s].rs = "CONNECTING"
         THEN ScheduleReconnect([SafeClose(r, 1000, "timeout") EXCEPT !.connecting = FALSE], j)
         ELSE r
    ELSE ScheduleReconnect([SafeClose(r, 1001, "timeout") EXCEPT !.connecting = FALSE], j)

\* the condition under which updateActivityDisplay calls scheduleReconnect
StaleDetected(r) ==
    IF ver = "app"
    THEN r.lastActivityAgo > STALE_MS /\ ~ClosureConnecting /\ WsReadyState(r) = "OPEN"
    ELSE r.lastActivityAgo > STALE_MS

\* ws.onmessage for the message kinds modelled
\* "malformed": event.data is not JSON; "tickerNaN": a ticker of the pair followed whose
\* price field c[0] is not a number; "ticker1", "ticker2": tickers of that pair with two
\* different prices
MessageKinds == {"malformed", "heartbeat", "maintenance", "subscribed", "subError",
                 "tickerNaN", "ticker1", "ticker2", "pong50", "pong1500"}

Pongs == {"pong50", "pong1500"}
PongLatency(kind) == IF kind = "pong50" THEN 50 ELSE 1500

\* parseFloat(tickerData.c[0]) / Number(lastStr) of a valid ticker
TickerPrice(kind) == IF kind = "ticker1" THEN 1 ELSE 2

\* channelIdsRef.current[key] = chan: a new key is added last, a key already there
\* keeps its place
PutBinding(ids, key, chan) ==
    IF \E i \in DOMAIN ids : ids[i][1] = key
    THEN [i \in DOMAIN ids |-> IF ids[i][1] = key THEN <<key, chan>> ELSE ids[i]]
    ELSE Append(ids, <<key, chan>>)

\* channelIdsRef.current[key], 0 for undefined
BoundChan(ids, key) ==
    IF \E i \in DOMAIN ids : ids[i][1] = key
    THEN ids[CHOOSE i \in DOMAIN ids : ids[i][1] = key][2]
    ELSE 0

\* the 'subscribed' branch, r.data being msg.pair and msg.channelID
OnSubscribed(r) ==
    IF ver = "app"
    THEN [r EXCEPT !.channelIdsRef = PutBinding(@, r.data.pair, r.data.chan)]
    ELSE LET pair == FindByKrakenPair(r.data.pair)
         IN IF pair # "none"
            THEN [r EXCEPT !.channelIdsRef = PutBinding(@, pair, r.data.chan)]
            ELSE r

\* App.jsx: Strategy 1 (the first entry of channelIdsRef with the channel decides,
\* by its key), then Strategy 2 (the pair name)
TradingPairApp(r) ==
    LET ids == r.channelIdsRef
        hits == {i \in DOMAIN ids : ids[i][2] = r.data.chan}
        first == CHOOSE i \in hits : \A j \in hits : i <= j
        byChannel == IF hits = {} THEN "none" ELSE FindById(ids[first][1])
    IN IF byChannel # "none" THEN byChannel ELSE FindByKrakenPair(r.data.pair)

\* part_002: the pair name, accepted when the pair has no channel or this one
TradingPairLegacy(r) ==
    LET tradingPair == FindByKrakenPair(r.data.pair)
    IN IF /\ tradingPair # "none"
          /\ BoundChan(r.channelIdsRef, tradingPair) \in {0, r.data.chan}
       THEN tradingPair
       ELSE "none"

TradingPair(r) == IF ver = "app" THEN TradingPairApp(r) ELSE TradingPairLegacy(r)

\* the ticker branch: setPrices only when a pair is found and the price is a number
OnTicker(r, kind) ==
    IF kind \in {"ticker1", "ticker2"} /\ TradingPair(r) # "none"
    THEN [r EXCEPT !.prices[TradingPair(r)] = TickerPrice(kind)]
    ELSE r

OnMessageApp(r, s, kind) ==
    IF kind = "malformed" THEN [r EXCEPT !.errorCount = CountError(@)]
    ELSE IF kind \in Pongs THEN OnPong(Bump(r), s, PongLatency(kind))
    ELSE IF kind = "subscribed" THEN OnSubscribed(Bump(r))
    ELSE OnTicker(Bump(r), kind)

OnMessageLegacy(r, s, kind, j) ==
    IF kind = "malformed" THEN [r EXCEPT !.errorCount = CountError(@)]
    ELSE LET r0 == Bump(r)
             \* if (messageCountRef.current % 20 === 0) updateConnectionQuality()
             r1 == IF r.twentieth THEN UpdateConnectionQuality(r0) ELSE r0
         IN
         CASE kind \in Pongs -> OnPong(r1, s, PongLatency(kind))
           [] kind = "maintenance" -> [r1 EXCEPT !.backoffRef = Max(@ * 2, 30000)]
           [] kind = "subscribed"  -> [OnSubscribed(r1) EXCEPT !.backoffRef = BACKOFF_MIN]
           [] kind = "subError"    ->
                ScheduleReconnect(
                    [r1 EXCEPT !.errorCount = CountError(@),
                               !.backoffRef = Max((@ * 3 + 1) \div 2, BACKOFF_MIN + 1000)], j)
           [] OTHER -> OnTicker(r1, kind)

OnMessage(r, s, kind, j) ==
    IF ver = "app" THEN OnMessageApp(r, s, kind) ELSE OnMessageLegacy(r, s, kind, j)

\* disconnect()
DisconnectBody(r) ==
    IF ver = "app"
    THEN [SafeClose(ClearTimers([r EXCEPT !.unsubscribedRef = TRUE]), 1000, "user")
            EXCEPT !.status = "disconnected", !.connecting = FALSE]
    ELSE [ClearTimers(SafeClose([r EXCEPT !.unsubscribedRef = TRUE], 1000, "user"))
            EXCEPT !.status = "disconnected", !.reconnectAttempts = 0,
                   !.connectionQuality = "unknown",
                   !.channelIdsRef = << >>, !.prices = NoPrices]

\* onVis, when document.visibilityState is 'visible'
OnVisBody(r, j) ==
    IF r.wsRef = 0
    THEN ScheduleReconnect([r EXCEPT !.backoffRef = BACKOFF_MIN, !.reconnectAttempts = 0], j)
    ELSE r

\* the Reconnect button's onClick
ReconnectClick(r) ==
    Connect([r EXCEPT !.backoffRef = BACKOFF_MIN, !.reconnectAttempts = 0])

(***************************************************************************)
(*                                Actions                                  *)
(***************************************************************************)
AgoCap == (STALE_MS \div AgoStep + 1) * AgoStep

WithinBounds(r) == ~r.ovf /\ r.backoffRef <= MaxBackoffModel

Commit(r0, fr, ss) ==
    LET r == Recycle(r0) IN
    /\ WithinBounds(r)
    /\ status' = r.status
    /\ connecting' = r.connecting
    /\ reconnectAttempts' = r.reconnectAttempts
    /\ errorCount' = r.errorCount
    /\ wsRef' = r.wsRef
    /\ socks' = r.socks
    /\ connectionTimeoutRef' = r.connectionTimeoutRef
    /\ staleIvRef' = r.staleIvRef
    /\ pingIvRef' = r.pingIvRef
    /\ healthCheckIvRef' = r.healthCheckIvRef
    /\ reconnectToRef' = r.reconnectToRef
    /\ lastDelay' = r.lastDelay
    /\ leakedReconnects' = r.leakedReconnects
    /\ backoffRef' = r.backoffRef
    /\ lastActivityAgo' = r.lastActivityAgo
    /\ unsubscribedRef' = r.unsubscribedRef
    /\ pendingConnects' = r.pendingConnects
    /\ schedFlip' = r.schedFlip
    /\ stopped' = r.stopped
    /\ prices' = IF "errors" \in obs THEN r.prices ELSE prices
    /\ lastMsg' = IF "errors" \in obs THEN r.lastMsg ELSE "none"
    /\ channelIdsRef' = IF "bind" \in obs THEN r.channelIdsRef ELSE channelIdsRef
    /\ lastData' = IF "bind" \in obs THEN r.data ELSE NoData
    /\ subsSent' = IF "bind" \in obs THEN r.subsSent ELSE << >>
    /\ maintenance' = IF "maint" \in obs THEN r.maintenance ELSE FALSE
    /\ openAgo' = IF "opened" \in obs THEN r.openAgo ELSE 0
    /\ visSignal' = IF "vis" \in obs THEN r.visSignal ELSE FALSE
    /\ IF "quality" \in obs
       THEN /\ connectionQuality' = r.connectionQuality
            /\ lastPingSet' = r.lastPingSet
            /\ lastPongSet' = r.lastPongSet
            /\ pongMinusPing' = r.pongMinusPing
            /\ hasValidPongRef' = r.hasValidPongRef
            /\ pingOut' = {s \in r.pingOut : r.socks[s].rs \in {"OPEN", "CLOSING"}}
            /\ roundTrip' = {s \in r.roundTrip : r.socks[s].rs \in {"OPEN", "CLOSING"}}
            /\ qSet' = r.qSet
       ELSE UNCHANGED <<connectionQuality, lastPingSet, lastPongSet, pongMinusPing,
                        hasValidPongRef, pingOut, roundTrip, qSet>>
    /\ failedRun' = IF "failures" \in obs THEN fr ELSE 0
    /\ staleScheds' = IF "stale" \in obs THEN ss ELSE 0
    /\ UNCHANGED <<ver, jitter, obs, rlVars, restVars, cacheVars>>

\* connect() resumes after `await krakenPairsCache.getPairs()` (App.jsx only)
ConnectResume ==
    /\ pendingConnects > 0
    /\ Commit(OpenSocket([Cur EXCEPT !.pendingConnects = @ - 1]), failedRun, staleScheds)

\* the await rejects, or new WebSocket() throws: the catch block of connect()
ConnectSetupError ==
    /\ pendingConnects > 0
    /\ Commit(ScheduleReconnect([Cur EXCEPT !.pendingConnects = @ - 1, !.connecting = FALSE],
                                jitter),
              failedRun, staleScheds)

\* the transport connects: the open event of socket s
SocketOpen(s) ==
    /\ socks[s].rs = "CONNECTING"
    /\ \E a \in (IF "bind" \in obs THEN Assignments ELSE {1}) :
         Commit([OnOpen(Cur, s) EXCEPT !.lastDelay = 0, !.socks[s].assign = a,
                                       !.maintenance = FALSE, !.openAgo = 0], 0, 0)

\* the close event of socket s, after an error event when the connection failed.
\* A socket that never opened can only fail (1006); 1006 comes with an error event.
SocketClose(s, code) ==
    /\ socks[s].rs \in {"CONNECTING", "OPEN", "CLOSING"}
    /\ code \in (IF socks[s].opened THEN {1000, 1001, 1006} ELSE {1006})
    /\ LET r0 == [Cur EXCEPT !.socks[s] = [@ EXCEPT !.rs = "CLOSED"]]
           r1 == IF code = 1006 THEN OnError(r0) ELSE r0
       IN Commit(OnClose(r1, code, jitter),
                 IF socks[s].opened THEN failedRun ELSE Min(failedRun + 1, MAX_RECONNECT_ATTEMPTS),
                 IF wsRef = s THEN 0 ELSE staleScheds)

\* the connection-timeout timer of socket s fires (socks[s].timedOut: it fired while
\* the socket was still connecting)
ConnectionTimeoutFire(s) ==
    /\ socks[s].timeout
    /\ LET r0 == [Cur EXCEPT !.socks[s] = [@ EXCEPT !.timeout = FALSE,
                                                    !.timedOut = /\ "timeout" \in obs
                                                                 /\ socks[s].rs = "CONNECTING"],
                             !.connectionTimeoutRef = IF @ = s THEN Dead ELSE @]
       IN Commit(OnConnectionTimeout(r0, s, jitter), failedRun, staleScheds)

\* the staleness interval started by socket s fires and finds the connection stale
\* (when it does not, updateActivityDisplay changes only the displayed age)
StaleFire(s) ==
    /\ socks[s].stale
    /\ StaleDetected(Cur)
    /\ LET r == ScheduleReconnect(Cur, jitter)
       IN Commit(r, failedRun,
                 IF r.sched THEN Min(staleScheds + 1, 2) ELSE staleScheds)

\* the reconnect timer held in reconnectToRef fires
ReconnectFire ==
    /\ reconnectToRef = "live"
    /\ Commit(Connect([Cur EXCEPT !.reconnectToRef = IF ver = "app" THEN "null" ELSE "dead"]),
              failedRun, staleScheds)

\* a reconnect timer whose handle was overwritten fires
LeakedReconnectFire ==
    /\ leakedReconnects > 0
    /\ Commit(Connect([Cur EXCEPT !.leakedReconnects = @ - 1]), failedRun, staleScheds)

\* The pair name and the channel id a message of socket s can carry (socks[s].assign:
\* how the server numbered the channels of this connection; socks[s].acked: the pairs
\* whose subscription it has acknowledged on it): a subscription
\* status or a ticker of a pair subscribed to, on the channel this connection gave it;
\* a ticker may also be one of a pair the component does not list.
DataOf(s, kind) ==
    IF kind \notin {"subscribed", "tickerNaN", "ticker1", "ticker2"} THEN {NoData}
    ELSE IF "bind" \notin obs THEN {[chan |-> 1, pair |-> "XBT/USD", sock |-> 0]}
    ELSE {[chan |-> ChanOf(socks[s].assign, n), pair |-> n, sock |-> s] : n \in KrakenPairs}
         \cup (IF kind = "subscribed" THEN {}
               ELSE {[chan |-> ForeignChan, pair |-> ForeignPair, sock |-> s]})

\* a message event on socket s; a pong comes only in answer to a ping.  In part_002
\* the message may be one whose count is a multiple of 20.
SocketMessage(s, kind) ==
    /\ socks[s].rs \in {"OPEN", "CLOSING"}
    /\ socks[s].opened
    /\ kind \in Pongs => s \in pingOut
    /\ \E twentieth \in (IF ver = "legacy" /\ "quality" \in obs THEN BOOLEAN ELSE {FALSE}),
          data \in DataOf(s, kind) :
         LET r == [OnMessage([Cur EXCEPT !.twentieth = twentieth, !.data = data],
                             s, kind, jitter)
                     EXCEPT !.lastMsg = kind,
                            !.maintenance = @ \/ kind = "maintenance",
                            !.socks[s].acked = IF kind = "subscribed" /\ "bind" \in obs
                                               THEN @ \cup {data.pair} ELSE @]
         IN Commit(r, failedRun, IF kind = "malformed" THEN staleScheds ELSE 0)

\* the ping interval started by socket s fires
PingFire(s) ==
    /\ socks[s].ping
    /\ Commit(OnPingInterval(Cur, s), failedRun, staleScheds)

\* the health-check interval started by socket s fires (App.jsx only)
HealthCheckFire(s, recentPing) ==
    /\ socks[s].health
    /\ Commit(OnHealthCheck(Cur, s, recentPing), failedRun, staleScheds)

\* no connection is active and none is being made
NoActiveConnection(r) ==
    /\ WsReadyState(r) \in {"NONE", "CLOSED"}
    /\ r.pendingConnects = 0
    /\ \A s \in Socks : r.socks[s].rs \notin {"CONNECTING", "OPEN"}

\* visibilitychange to 'visible'
OnVis ==
    \E r \in {[OnVisBody(Cur, jitter) EXCEPT !.visSignal = NoActiveConnection(Cur)]} :
        Commit(r, failedRun, staleScheds)

\* the user clicks Reconnect (the button is disabled while connecting or open)
ReconnectButton ==
    /\ ~connecting
    /\ status # "open"
    /\ Commit(ReconnectClick([Cur EXCEPT !.lastDelay = 0, !.stopped = FALSE]),
              failedRun, staleScheds)

\* disconnect() is called
Disconnect ==
    \E r \in {[DisconnectBody(Cur) EXCEPT !.stopped = "stop" \in obs]} :
        Commit(r, failedRun, 0)

\* time passes without a message
TimePasses ==
    /\ lastActivityAgo < AgoCap \/ ("opened" \in obs /\ openAgo < AgoCap)
    /\ Commit([Cur EXCEPT !.lastActivityAgo = Min(@ + AgoStep, AgoCap),
                          !.openAgo = Min(@ + AgoStep, AgoCap)], failedRun, staleScheds)

\* the state after mount: render 1 and the boot effect's connect()
Boot0 == [status |-> "disconnected", connecting |-> FALSE, reconnectAttempts |-> 0,
          errorCount |-> 0, wsRef |-> 0, socks |-> [s \in Socks |-> NoSock],
          connectionTimeoutRef |-> 0, staleIvRef |-> 0, pingIvRef |-> 0,
          healthCheckIvRef |-> 0, reconnectToRef |-> "null", lastDelay |-> 0,
          leakedReconnects |-> 0, backoffRef |-> BACKOFF_MIN, lastActivityAgo |-> AgoCap,
          unsubscribedRef |-> FALSE, pendingConnects |-> 0, prices |-> NoPrices,
          lastMsg |-> "none", channelIdsRef |-> << >>, data |-> NoData, subsSent |-> << >>,
          maintenance |-> FALSE, openAgo |-> 0,
          connectionQuality |-> "unknown", lastPingSet |-> FALSE, lastPongSet |-> FALSE,
          pongMinusPing |-> 0, hasValidPongRef |-> FALSE, pingOut |-> {},
          roundTrip |-> {}, qSet |-> FALSE, twentieth |-> FALSE, visSignal |-> FALSE,
          schedFlip |-> FALSE, stopped |-> FALSE, sched |-> FALSE, ovf |-> FALSE]

ConnInit ==
    /\ ver \in {"app", "legacy"}
    /\ jitter \in JitterValues
    /\ LET r == Connect(Boot0) IN
       /\ status = r.status
       /\ connecting = r.connecting
       /\ reconnectAttempts = r.reconnectAttempts
       /\ errorCount = r.errorCount
       /\ wsRef = r.wsRef
       /\ socks = r.socks
       /\ connectionTimeoutRef = r.connectionTimeoutRef
       /\ staleIvRef = r.staleIvRef
       /\ pingIvRef = r.pingIvRef
       /\ healthCheckIvRef = r.healthCheckIvRef
       /\ reconnectToRef = r.reconnectToRef
       /\ lastDelay = r.lastDelay
       /\ leakedReconnects = r.leakedReconnects
       /\ backoffRef = r.backoffRef
       /\ lastActivityAgo = r.lastActivityAgo
       /\ unsubscribedRef = r.unsubscribedRef
       /\ pendingConnects = r.pendingConnects
       /\ schedFlip = r.schedFlip
       /\ stopped = r.stopped
       /\ prices = r.prices
       /\ channelIdsRef = r.channelIdsRef
       /\ lastMsg = r.lastMsg
       /\ lastData = r.data
       /\ subsSent = r.subsSent
       /\ maintenance = r.maintenance
       /\ openAgo = r.openAgo
       /\ connectionQuality = r.connectionQuality
       /\ lastPingSet = r.lastPingSet
       /\ lastPongSet = r.lastPongSet
       /\ pongMinusPing = r.pongMinusPing
       /\ hasValidPongRef = r.hasValidPongRef
       /\ pingOut = r.pingOut
       /\ roundTrip = r.roundTrip
       /\ qSet = r.qSet
       /\ visSignal = r.visSignal
    /\ failedRun = 0
    /\ staleScheds = 0

Init == RLInit /\ RestInit /\ CacheInit /\ ConnInit /\ obs = {}

\* the REST client and the cache are the same beside either revision of the stream
InitApp == Init /\ ver = "app"

\* the same program, with some of the history variables recorded
InitFailures == RLInit /\ RestInit /\ CacheInit /\ ConnInit /\ obs = {"failures", "delays"}
InitDelays == RLInit /\ RestInit /\ CacheInit /\ ConnInit /\ obs = {"delays"}
InitStale == RLInit /\ RestInit /\ CacheInit /\ ConnInit /\ obs = {"stale"}
InitStop == RLInit /\ RestInit /\ CacheInit /\ ConnInit /\ obs = {"stop"}
InitVis == RLInit /\ RestInit /\ CacheInit /\ ConnInit /\ obs = {"vis", "delays"}
InitBind == RLInit /\ RestInit /\ CacheInit /\ ConnInit /\ obs = {"bind", "errors"}
InitMaint == RLInit /\ RestInit /\ CacheInit /\ ConnInit /\ obs = {"maint", "delays"}
InitSubError == RLInit /\ RestInit /\ CacheInit /\ ConnInit /\ obs = {"errors", "delays"}
InitFresh == RLInit /\ RestInit /\ CacheInit /\ ConnInit /\ obs = {"stale", "opened"}
InitTimeout == RLInit /\ RestInit /\ CacheInit /\ ConnInit /\ obs = {"timeout"}
InitErrors == RLInit /\ RestInit /\ CacheInit /\ ConnInit /\ obs = {"errors"}
InitQuality == RLInit /\ RestInit /\ CacheInit /\ ConnInit /\ obs = {"quality"}

Next ==
    \/ ConnectResume
    \/ ConnectSetupError
    \/ \E s \in Socks : SocketOpen(s)
    \/ \E s \in Socks, code \in {1000, 1001, 1006} : SocketClose(s, code)
    \/ \E s \in Socks : ConnectionTimeoutFire(s)
    \/ \E s \in Socks : StaleFire(s)
    \/ ReconnectFire
    \/ LeakedReconnectFire
    \/ \E s \in Socks, kind \in MessageKinds : SocketMessage(s, kind)
    \/ OnVis
    \/ ReconnectButton
    \/ Disconnect
    \/ TimePasses

\* the steps that need no user: sockets, timers, messages, the passage of time
NextUnattended ==
    \/ ConnectResume
    \/ ConnectSetupError
    \/ \E s \in Socks : SocketOpen(s)
    \/ \E s \in Socks, code \in {1000, 1001, 1006} : SocketClose(s, code)
    \/ \E s \in Socks : ConnectionTimeoutFire(s)
    \/ \E s \in Socks : StaleFire(s)
    \/ ReconnectFire
    \/ LeakedReconnectFire
    \/ \E s \in Socks, kind \in MessageKinds : SocketMessage(s, kind)
    \/ TimePasses

\* the steps of a run in which the endpoint never accepts a connection (no reconnect
\* timer is overwritten in such a run: onclose clears the one the timeout created)
NextFailures ==
    \/ ConnectResume
    \/ ConnectSetupError
    \/ \E s \in Socks : SocketClose(s, 1006)
    \/ \E s \in Socks : ConnectionTimeoutFire(s)
    \/ ReconnectFire

\* the steps of a stream that connects, receives messages, drops and reconnects
NextStream ==
    \/ ConnectResume
    \/ \E s \in Socks : SocketOpen(s)
    \/ \E s \in Socks, code \in {1000, 1001, 1006} : SocketClose(s, code)
    \/ ReconnectFire
    \/ \E s \in Socks, kind \in MessageKinds : SocketMessage(s, kind)
    \/ TimePasses

\* the same with the ping and health-check intervals
NextQuality ==
    \/ NextStream
    \/ \E s \in Socks : PingFire(s)
    \/ \E s \in Socks, recentPing \in BOOLEAN : HealthCheckFire(s, recentPing)

\* the stream, with the page hidden and shown again
NextVis ==
    \/ NextStream
    \/ OnVis

\* the stream with its staleness check and disconnect()
NextLifecycle ==
    \/ NextStream
    \/ \E s \in Socks : StaleFire(s)
    \/ Disconnect

\* the stream with the messages that bind channels and carry prices
BindKinds == {"subscribed", "ticker1", "ticker2"}

NextBind ==
    \/ ConnectResume
    \/ \E s \in Socks : SocketOpen(s)
    \/ \E s \in Socks, code \in {1000, 1006} : SocketClose(s, code)
    \/ ReconnectFire
    \/ \E s \in Socks, kind \in BindKinds : SocketMessage(s, kind)

Spec == Init /\ [][Next]_vars

SpecDelays == InitDelays /\ [][NextUnattended]_vars

SpecStale == InitStale /\ [][NextUnattended]_vars

SpecFailures == InitFailures /\ [][NextFailures]_vars

SpecStop == InitStop /\ [][Next]_vars

SpecErrors == InitErrors /\ [][NextStream]_vars

SpecLifecycle == InitErrors /\ [][NextLifecycle]_vars

SpecBind == InitBind /\ [][NextBind]_vars

SpecMaint == InitMaint /\ [][NextStream]_vars

SpecSubError == InitSubError /\ [][NextStream]_vars

SpecFresh == InitFresh /\ [][NextUnattended]_vars

SpecTimeout == InitTimeout /\ [][NextUnattended]_vars

SpecVis == InitVis /\ [][NextVis]_vars

SpecQuality == InitQuality /\ [][NextQuality]_vars

\* the rate limiter alone
SpecRL == Init /\ [][RLNext]_vars

\* the rate limiter with its timers firing and time passing
SpecRLFair ==
    /\ SpecRL
    /\ WF_vars(RLTick)
    /\ \A c \in Callers : WF_vars(RLWake(c))

\* the REST client alone
SpecRest == InitApp /\ [][RestNext]_vars

\* the cache alone
SpecCache == InitApp /\ [][CacheNext]_vars

(***************************************************************************)
(*                              Properties                                 *)
(***************************************************************************)
\* reconnect timers that are pending: the one reconnectToRef holds and the overwritten ones
PendingReconnectTimers == (IF reconnectToRef = "live" THEN 1 ELSE 0) + leakedReconnects

\* C1: any two consecutive requests admitted by rateLimitedRequest are admitted at
\* least rateLimitDelay apart, whatever the interleaving of the concurrent callers.
C1_AdmissionSpacing ==
    [][requestCount' = requestCount + 1 /\ requestCount > 0
         => rlNow - lastRequestTime >= rateLimitDelay]_vars

\* C2: once MAX_RECONNECT_ATTEMPTS consecutive connection attempts have failed with no
\* open in between, the status is 'failed' and no reconnect timer is pending.
C2_FailedAtCeiling ==
    failedRun >= MAX_RECONNECT_ATTEMPTS => status = "failed" /\ PendingReconnectTimers = 0

\* No handler ever reaches setStatus('failed'): reconnectAttempts is only ever set to 0.
StatusNeverFailed == status # "failed" /\ reconnectAttempts = 0

\* C4: the step in which a socket opens leaves the attempt count at 0 and the backoff at
\* BACKOFF_MIN, whatever they were before.
C4_OpenResets ==
    [][(\E s \in Socks : socks[s].rs = "CONNECTING" /\ socks'[s].rs = "OPEN")
         => reconnectAttempts' = 0 /\ backoffRef' = BACKOFF_MIN]_vars

\* an open connection reached through a reconnect, which had grown the backoff
C4_OpenAfterReconnect ==
    /\ ver = "legacy"
    /\ status = "open"
    /\ WsReadyState(Cur) = "OPEN"
    /\ reconnectToRef = "dead"
    /\ reconnectAttempts = 0
    /\ backoffRef = BACKOFF_MIN

\* C5: the delay of every scheduled reconnect is at most BACKOFF_MAX.
C5_DelayWithinMax == lastDelay <= BACKOFF_MAX

\* C6: across consecutive failed attempts the reconnect delay grows from BACKOFF_MIN:
\* from the second failure on, the reconnect scheduled last waits longer than BACKOFF_MIN.
C6_DelayGrows == failedRun >= 2 => lastDelay > BACKOFF_MIN

\* C7: at any time at most one reconnect timer is pending.
C7_SingleReconnectTimer == PendingReconnectTimers <= 1

\* C8: while a connection stays nominally open without a message, the staleness check
\* schedules a reconnect at most once.
C8_StaleScheduledOnce == staleScheds <= 1

\* C9: after a close the user did not ask for (no disconnect() was called and nobody
\* called close() on the socket), whatever its code, a reconnect is scheduled.
C9_CloseSchedulesReconnect ==
    [][\A s \in Socks :
         (/\ socks[s].rs \in {"CONNECTING", "OPEN"}
          /\ socks'[s].rs \in {"CLOSED", "NONE"}
          /\ ~unsubscribedRef)
         => reconnectToRef' = "live"]_vars

\* no timer of the connection is pending and no socket handle is held
Quiet ==
    /\ wsRef = 0
    /\ PendingReconnectTimers = 0
    /\ \A s \in Socks : ~socks[s].timeout /\ ~socks[s].stale /\ ~socks[s].ping /\ ~socks[s].health

\* C10: after disconnect(), from any state, no ping, staleness, health-check,
\* connection-timeout or reconnect timer is pending and no socket handle is held.
C10_DisconnectQuiet == [][Disconnect => Quiet']_vars

\* C11: after disconnect() and until the user clicks Reconnect, no reconnect timer is
\* created and no socket is created or opened.
C11_StopSuppressesReconnect ==
    [][stopped /\ stopped'
         => /\ PendingReconnectTimers' <= PendingReconnectTimers
            /\ \A s \in Socks :
                  /\ socks'[s].rs = "CONNECTING" => socks[s].rs = "CONNECTING"
                  /\ socks'[s].rs = "OPEN" => socks[s].rs = "OPEN"]_vars

\* the keys stored
Present == {k \in CKeys : cache[k].present}

\* C12: get(k) called immediately after set(k, v, ttl) returns v, for every key, value
\* and prior cache state.
C12_GetAfterSet ==
    cLast.op = "set" => GetReturn(CCur, cLast.key, cNow) = cLast.value

\* The same for the values whose estimated size does not exceed maxMemory.
GetAfterSetOfFittingValue ==
    cLast.op = "set" /\ GetSize(cLast.value) <= CMaxMemory
        => GetReturn(CCur, cLast.key, cNow) = cLast.value

\* C13: once more than ttl has elapsed since the last set of k, get(k) is a miss and
\* has(k) is false, whatever reads of k happened in between.
C13_ExpiredIsMiss ==
    \A k \in CKeys :
        cSetAt[k] # Never /\ cNow - cSetAt[k] > cSetTtl[k]
            => GetReturn(CCur, k, cNow) = Miss /\ ~HasReturn(CCur, k, cNow)

\* an entry that was read after it was set, still stored, and whose ttl has now elapsed
C13_ReadThenExpired ==
    \E k \in CKeys :
        /\ cache[k].present
        /\ cache[k].lastAccessed > cache[k].createdAt
        /\ cNow - cSetAt[k] > cSetTtl[k]

\* every entry the latest set() evicted was last accessed no later than every entry kept
EvictedAreLeastRecent ==
    \A y \in Present \ {cLast.key} : cLast.evictedLatest <= cache[y].lastAccessed

\* C14 as stated: inserting a new key into a cache holding maxSize entries evicts exactly
\* one entry, the least recently accessed one.
C14_EvictsExactlyOne ==
    cLast.op = "set" /\ cLast.intoFull
        => Cardinality(cLast.evicted) = 1 /\ EvictedAreLeastRecent

\* C14, amended: inserting a new key into a cache holding maxSize entries evicts one entry
\* or more (more when the memory limit asks for it), and the evicted entries are the
\* least recently accessed ones.
C14_EvictsLeastRecent ==
    cLast.op = "set" /\ cLast.intoFull
        => Cardinality(cLast.evicted) >= 1 /\ EvictedAreLeastRecent

\* a set() into a full cache has just evicted x although y, still stored, was inserted
\* before x: y was read after x was inserted
C14_EvictedYoungerEntry ==
    /\ cLast.op = "set" /\ cLast.intoFull
    /\ \E x \in cLast.evicted, y \in Present :
          cache[y].createdAt < cSetAt[x] /\ cache[y].lastAccessed > cSetAt[x]

\* C15: the number of stored entries is at most maxSize and currentMemory at most
\* maxMemory, after every operation.
C15_WithinLimits == Cardinality(Present) <= CMaxSize /\ currentMemory <= CMaxMemory

\* a set() has just evicted for want of room and left the cache full
C15_FullAfterEviction ==
    /\ cLast.op = "set" /\ cLast.evicted # {}
    /\ Cardinality(Present) = CMaxSize
    /\ currentMemory + GetSize(0) > CMaxMemory

\* C18: the rate limiter only delays: a caller that has to wait waits for a computed
\* delay of at most rateLimitDelay, and every waiting caller is eventually admitted (its
\* request function is invoked, once, by the admission that ends the wait).
C18_DelayedNeverDropped ==
    /\ [](\A c \in Callers : rlCallers[c].pc = "waiting"
                => rlCallers[c].wakeAt - rlNow <= rateLimitDelay)
    /\ \A c \in Callers : (rlCallers[c].pc = "waiting") ~> (rlCallers[c].pc = "inflight")
    /\ [][\A c \in Callers : rlCallers[c].pc # "inflight" /\ rlCallers'[c].pc = "inflight"
                => requestCount' = requestCount + 1]_vars

\* a caller waits while another request is in flight, which was admitted after a wait itself
C18_WaitingBehindAdmitted ==
    \E c, d \in Callers :
        /\ rlCallers[c].pc = "waiting" /\ rlCallers[c].wakeAt > rlNow
        /\ rlCallers[d].pc = "inflight"
        /\ requestCount >= 2

\* a request() call that found a fresh entry was answered from the cache alone
ServedFromCache(c) ==
    /\ reqs[c].pc = "done"
    /\ reqs[c].ret = reqs[c].freshData
    /\ reqs[c].fetches = 0
    /\ ~reqs[c].rl

\* C16: a request() call for a key whose cache entry is fresh returns the cached value,
\* calls fetch not once and neither reads nor updates lastRequestTime.
C16_FreshServedFromCache ==
    \A c \in RestCallers : reqs[c].fresh => ServedFromCache(c)

\* the same for the entries whose cached body is a truthy value
FreshTruthyServedFromCache ==
    \A c \in RestCallers : reqs[c].fresh /\ Truthy(reqs[c].freshData) => ServedFromCache(c)

\* C17: one request() call makes at most maxRetries fetches, an attempt after the first
\* starts no sooner than its backoff delay after the failure before it, and the call
\* fails, with the error, only after maxRetries fetches.
C17_RetryCeiling ==
    \A c \in RestCallers :
        /\ reqs[c].fetches <= maxRetries
        /\ reqs[c].attempt <= maxRetries
        /\ reqs[c].attempt >= 2 /\ reqs[c].pc \in {"waiting", "fetching"}
             => rlNow - reqs[c].failAt >= RetryDelayOf(reqs[c].attempt - 1)
        /\ reqs[c].pc = "failed" => reqs[c].fetches = maxRetries /\ reqs[c].ret = "error"

\* a call has failed after its last attempt, which had to wait for the rate limiter too
C17_FailedAfterLastAttempt ==
    \E c \in RestCallers :
        /\ reqs[c].pc = "failed"
        /\ reqs[c].fetches = maxRetries
        /\ restErrorCount >= 1

\* the message kinds that cannot be parsed
Unparseable == {"malformed", "tickerNaN"}

\* the connection status, the socket and the timers
ConnectionState ==
    <<status, connecting, wsRef, socks, connectionTimeoutRef, staleIvRef, pingIvRef,
      healthCheckIvRef, reconnectToRef, leakedReconnects>>

\* C19: a message that cannot be parsed (event.data is not JSON, or the price field of a
\* ticker is not a number) adds one to the error counter and leaves the status, the
\* socket, the timers and the price as they were.
C19_UnparseableCounted ==
    [][lastMsg' \in Unparseable
         => /\ errorCount < MaxErrorCount => errorCount' = errorCount + 1
            /\ UNCHANGED <<ConnectionState, prices>>]_vars

\* a message whose JSON does not parse is counted and changes nothing else
MalformedJsonCounted ==
    [][lastMsg' = "malformed"
         => /\ errorCount < MaxErrorCount => errorCount' = errorCount + 1
            /\ UNCHANGED <<ConnectionState, prices>>]_vars

\* a ticker with a number as its price sets the price, whatever was received before
ValidTickerSetsPrice ==
    /\ lastMsg = "ticker1" => prices["BTC/USD"] = 1
    /\ lastMsg = "ticker2" => prices["BTC/USD"] = 2

\* C20: connectionQuality is set to excellent, good, fair or poor only when a pong has
\* answered a ping on the current connection (the socket wsRef holds) since it opened.
C20_QualityAfterRoundTrip ==
    qSet => wsRef # 0 /\ wsRef \in roundTrip

\* C27: a request() call whose attempt failed permanently (a 4xx other than 429, or a
\* body that is not JSON) has failed with that error after that single attempt.
C27_PermanentNotRetried ==
    \A c \in RestCallers :
        reqs[c].failure = "permanent" => reqs[c].pc = "failed" /\ reqs[c].fetches = 1

\* C28: when request() has failed, an expired entry its key had before the call is
\* still in the cache.
C28_ExpiredEntryKept ==
    \A c \in RestCallers :
        reqs[c].pc = "failed" /\ reqs[c].hadExpired => restCache[reqs[c].key] # RestAbsent

\* request() removes an expired entry only through the read of the cache: a call made
\* with useCache false leaves it where it was
ExpiredEntryKeptWithoutCacheRead ==
    \A c \in RestCallers :
        reqs[c].pc # "idle" /\ reqs[c].hadExpired /\ ~reqs[c].useCache
            => restCache[reqs[c].key] # RestAbsent

\* C22: after a visibility signal that found no connection active, the attempt count is
\* 0 and the reconnect that is pending was created with the delay BACKOFF_MIN: no longer
\* delay scheduled before the signal is waited out.
C22_ResumeReconnectsAtOnce ==
    visSignal => /\ reconnectAttempts = 0
                 /\ reconnectToRef = "live"
                 /\ lastDelay = BACKOFF_MIN


\* the sockets whose connection is open
OpenSockets == {s \in Socks : socks[s].rs = "OPEN"}

\* C23: in every reachable state, status 'open' means that exactly one open socket
\* exists and wsRef holds it; any other status means that no open socket is held
C23_OpenIffOneActiveSocket ==
    /\ status = "open" => OpenSockets = {wsRef}
    /\ status # "open" => OpenSockets = {}


\* C24: a step that is not the arrival of a message (close, socket error, staleness
\* detection, reconnect, disconnect) leaves the stored price as it was
C24_LifecycleKeepsPrices == [][lastMsg' = "none" => prices' = prices]_vars


\* the socket in wsRef is open and has been silent for longer than STALE_MS
StaleSocketActive == WsReadyState(Cur) = "OPEN" /\ lastActivityAgo > STALE_MS

\* C25: once the reconnect that the staleness check scheduled has run (no reconnect
\* timer is pending and no connect() is suspended), the stale socket is no longer
\* the open socket in wsRef
C25_StaleSocketReplaced ==
    /\ staleScheds >= 1
    /\ PendingReconnectTimers = 0
    /\ pendingConnects = 0
    => ~StaleSocketActive


\* the step is the close event of socket s
CloseEventOf(s) ==
    /\ socks[s].rs \in {"CONNECTING", "OPEN", "CLOSING"}
    /\ socks'[s].rs \in {"CLOSED", "NONE"}

\* C26: after the close event of a socket, whatever the code, none of the staleness,
\* ping and health-check intervals of that socket is live and channelIdsRef is empty
C26_CloseClearsTimersAndBindings ==
    [][\A s \in Socks :
          CloseEventOf(s) => /\ ~socks'[s].stale /\ ~socks'[s].ping /\ ~socks'[s].health
                             /\ channelIdsRef' = << >>]_vars


\* the latest step handled a ticker with a number as its price
NumericTicker == lastMsg \in {"ticker1", "ticker2"}

\* C21: once the 'subscribed' status of a pair has arrived on a connection, with the
\* channel the connection gave the pair, a ticker of that channel with a number as its
\* price sets the price of the pair's id, whatever the order of the acknowledgements
C21_TickerAfterAckSetsPrice ==
    NumericTicker /\ lastData.sock # 0 /\ lastData.pair \in socks[lastData.sock].acked
    => prices[FindByKrakenPair(lastData.pair)] = TickerPrice(lastMsg)


\* the logical symbol a key of channelIdsRef stands for (App.jsx keeps the table under
\* provider names, part_002 under ids)
SymbolOf(key) == IF FindById(key) # "none" THEN FindById(key) ELSE FindByKrakenPair(key)

\* the symbols channelIdsRef binds channel c to
ChannelSymbols(c) ==
    {SymbolOf(channelIdsRef[i][1]) : i \in {j \in DOMAIN channelIdsRef : channelIdsRef[j][2] = c}}
        \ {"none"}

\* channel first, the pair name only for a channel that is not bound
ResolvedSymbols(c, name) ==
    IF ChannelSymbols(c) # {} THEN ChannelSymbols(c) ELSE {FindByKrakenPair(name)} \ {"none"}

\* C29: a ticker with a number as its price sets the price of the symbol its channel
\* is bound to; when the channel is not bound, of the symbol its pair name stands
\* for; when neither gives a symbol, no price changes
C29_ChannelThenName ==
    [][lastMsg' \in {"ticker1", "ticker2"}
       => LET to == ResolvedSymbols(lastData'.chan, lastData'.pair)
          IN IF to = {} THEN prices' = prices
             ELSE \E k \in to : prices' = [prices EXCEPT ![k] = TickerPrice(lastMsg')]]_vars

\* a ticker of a pair the component does not list, on a channel that is not bound,
\* changes no price
ForeignTickerChangesNothing ==
    [][lastMsg' \in {"ticker1", "ticker2"} /\ lastData'.pair = ForeignPair
       => prices' = prices]_vars

\* a ticker on a channel that is not bound sets the price of the pair it names
UnboundResolvesByName ==
    [][/\ lastMsg' \in {"ticker1", "ticker2"}
       /\ channelIdsRef = << >>
       /\ lastData'.pair \in KrakenPairs
       => prices' = [prices EXCEPT ![FindByKrakenPair(lastData'.pair)] = TickerPrice(lastMsg')]]_vars


\* the step is the open event of socket s
OpenEventOf(s) == socks[s].rs = "CONNECTING" /\ socks'[s].rs = "OPEN"

\* C30: the handler of every open event sends exactly one subscribe message, and its
\* pair list is the provider names of all of TRADING_PAIRS
C30_OneSubscribeForAllPairs ==
    [][(\E s \in Socks : OpenEventOf(s)) => subsSent' = << AllKrakenPairs >>]_vars

\* whatever the number of messages, every pair of TRADING_PAIRS is subscribed to once
EveryPairSubscribedOnce ==
    [][(\E s \in Socks : OpenEventOf(s))
       => \A n \in KrakenPairs :
            Cardinality({<<i, j>> \in (DOMAIN subsSent') \X (1..Len(TRADING_PAIRS)) :
                            j \in DOMAIN subsSent'[i] /\ subsSent'[i][j] = n}) = 1]_vars


\* the floor a maintenance announcement puts under the reconnect delay (ms)
MaintenanceFloor == 30000

\* C31: a reconnect scheduled after a systemStatus 'maintenance' message, and before
\* the next open, is scheduled with a delay of at least 30 s
C31_MaintenanceFloorHolds ==
    [][maintenance /\ schedFlip' # schedFlip => lastDelay' >= MaintenanceFloor]_vars


\* C32: the step that handles a subscriptionStatus 'error' schedules a reconnect, with
\* a delay longer than backoffRef held before the message, which is the delay a close
\* would have been given at that moment
C32_SubErrorSchedulesLongerReconnect ==
    [][lastMsg' = "subError"
       => schedFlip' # schedFlip /\ lastDelay' > backoffRef]_vars

\* part_002 alone: the reconnect is scheduled, and with the longer delay
LegacySubErrorSchedulesLonger ==
    [][ver = "legacy" /\ lastMsg' = "subError"
       => schedFlip' # schedFlip /\ lastDelay' > backoffRef]_vars


\* C33: whenever a message changes the price of a pair, the pair name in the message
\* is the provider name of that pair
C33_PriceFromOwnPair ==
    [][\A k \in PairIds :
          prices'[k] # prices[k] /\ lastMsg' \in {"ticker1", "ticker2"}
          => FindByKrakenPair(lastData'.pair) = k]_vars


\* the sockets that are connecting or open
LiveSockets == {s \in Socks : socks[s].rs \in {"CONNECTING", "OPEN"}}

\* C34: at most one WebSocket of the component is connecting or open at any time
C34_AtMostOneLiveSocket == Cardinality(LiveSockets) <= 1


\* the sockets whose interval f ("ping", "stale", "health") is running
IntervalsOf(f) == {s \in Socks : socks[s][f]}

\* C35: at most one ping, one staleness and one health-check interval run at any time,
\* and each runs only while the socket that started it is open
C35_IntervalsOfOpenSocketOnly ==
    \A f \in {"ping", "stale", "health"} :
        /\ Cardinality(IntervalsOf(f)) <= 1
        /\ \A s \in IntervalsOf(f) : socks[s].rs = "OPEN"


\* C36: when the staleness check has scheduled a reconnect for the connection, more
\* than STALE_MS has passed since the connection opened
C36_NoStaleBeforeThreshold == staleScheds >= 1 => openAgo > STALE_MS


\* a new connection attempt is under way or scheduled
AttemptAhead == PendingReconnectTimers > 0 \/ pendingConnects > 0 \/ LiveSockets # {}

\* C37: a socket whose connection timeout fired while it was connecting is closing or
\* closed from then on, and after its close event a reconnect is still scheduled (or
\* the new attempt has already begun)
C37_TimedOutSocketClosedAndRetried ==
    [][\A s \in Socks :
          /\ socks'[s].timedOut => socks'[s].rs \notin {"CONNECTING", "OPEN"}
          /\ CloseEventOf(s) /\ socks[s].timedOut => AttemptAhead']_vars


\* C38: set(key, value, ttl) terminates for every value and every cache state, including
\* a value whose estimated size alone exceeds maxMemory and a cache that is empty: no
\* call of set() is left inside its eviction loop.
C38_SetTerminates == ~cHung

\* The same for the values whose estimated size does not exceed maxMemory.
SetOfFittingValueTerminates ==
    \A k \in CKeys, v \in CValues, ttl \in CTtls :
        GetSize(v) <= CMaxMemory => ~SetBody(CCur, k, v, ttl, cNow).hung


\* C39: set(k, v) for a key k that is already stored replaces only k's entry: every other
\* key stored before the call is still stored afterwards, even when the cache holds
\* exactly maxSize entries.
C39_SetReplacesOnlyItsKey ==
    cLast.op = "set" /\ cLast.update /\ ~cHung => cLast.evicted \subseteq {cLast.key}

\* The same for a cache that holds fewer than maxSize entries and has room in memory for
\* the new value beside the old one.
SetWithRoomReplacesOnlyItsKey ==
    \A k \in Present, v \in CValues, ttl \in CTtls :
        ~ShouldEvict(CCur, GetSize(v))
            => \A x \in Present \ {k} : SetBody(CCur, k, v, ttl, cNow).cache[x] = cache[x]


\* the sum of getSize() over the entries stored under the keys ks
RECURSIVE SizeOf(_, _)
SizeOf(c, ks) ==
    IF ks = {} THEN 0
    ELSE LET k == CHOOSE x \in ks : TRUE
         IN GetSize(c[k].value) + SizeOf(c, ks \ {k})

\* C40: in every reachable state accessOrder contains exactly the keys of the cache map,
\* each exactly once, and currentMemory equals the sum of getSize() over the stored
\* entries and is never negative.
C40_OrderAndMemoryConsistent ==
    /\ {accessOrder[i] : i \in 1..Len(accessOrder)} = Present
    /\ Len(accessOrder) = Cardinality(Present)
    /\ currentMemory = SizeOf(cache, Present)
    /\ currentMemory >= 0

\* a set() has just replaced a stored key after its loop evicted another one: the new
\* entry is the only one in the order of access and in the memory count
C40_AfterEvictionAndReplacement ==
    /\ cLast.op = "set" /\ cLast.update /\ ~cHung
    /\ cLast.evicted # {} /\ cLast.key \notin cLast.evicted
    /\ accessOrder = <<cLast.key>>
    /\ currentMemory = GetSize(cLast.value) /\ cLast.value # 0

====
